---- MODULE Spec2Model ----
(***************************************************************************)
(* Model of the e-Library server (main.go): the Library store (Books,      *)
(* Loans, one sync.RWMutex) and its four HTTP handlers, run by concurrent  *)
(* request goroutines.  Dates are counted in whole days.                   *)
(***************************************************************************)
EXTENDS Integers, Sequences, FiniteSets, TLC

\* ---------------------------------------------------------------- bounds
NumProcs == 3
MaxOps == 3
MaxClock == 1

\* ------------------------------------------------------ program constants
LoanPeriodDays == 28
ExtendDays == 21

StatusOK == 200
StatusCreated == 201
StatusBadRequest == 400
StatusNotFound == 404
StatusMethodNotAllowed == 405
StatusConflict == 409

\* ----------------------------------------------------------- input sets
Procs == 1..NumProcs
NoProc == 0
Times == 0..MaxClock
GoProgramming == "Go Programming"
CleanCode == "Clean Code"
Catalog == {GoProgramming, CleanCode}
ReqTitles == Catalog \cup {"Nonexistent Book"}
\* a title that differs from a catalog title only in case
LowerCaseTitle == "clean code"
Borrowers == {"John Doe", "Jane Smith"}

\* the HTTP requests sent to the server: the well-formed ones and one of
\* each kind the handlers reject before touching the store
HttpRequest(method, bodyOK, title, borrower) ==
    [method |-> method, bodyOK |-> bodyOK, title |-> title, borrower |-> borrower]

GetRequests ==
    {HttpRequest("GET", TRUE, t, "") : t \in ReqTitles \cup {LowerCaseTitle}}
      \cup {HttpRequest("POST", TRUE, GoProgramming, ""),
            HttpRequest("GET", TRUE, "", "")}

PostRequests ==
    {HttpRequest("POST", TRUE, t, b) : t \in ReqTitles, b \in Borrowers}
      \cup {HttpRequest("GET", TRUE, GoProgramming, "John Doe"),
            HttpRequest("POST", FALSE, "", ""),
            HttpRequest("POST", TRUE, "", "John Doe"),
            HttpRequest("POST", TRUE, GoProgramming, "")}
NoBody == "none"

\* created is a history variable: beside every stored loan, the loan as
\* the Borrow that created it made it and the number of successful
\* Extends that selected it since
VARIABLES Books, Loans, mutex, pc, req, book, resp, issued, created

vars == <<Books, Loans, mutex, pc, req, book, resp, issued, created>>
store == <<Books, Loans>>

\* ------------------------------------------------------------ data types
BookDetail(title, copies) == [Title |-> title, AvailableCopies |-> copies]

LoanDetail(title, borrower, loanDate, returnDate) ==
    [BookTitle |-> title, NameOfBorrower |-> borrower,
     LoanDate |-> loanDate, ReturnDate |-> returnDate]

\* time.Time.AddDate(0, 0, days)
AddDate(t, days) == t + days

\* the request a handler works on once it has passed validation (a
\* rejected request keeps only its operation)
Request(op, title, borrower) == [op |-> op, title |-> title, borrower |-> borrower]
NoReq == Request("none", "", "")
NoResp == [status |-> 0, body |-> NoBody]
NoBook == [Title |-> "", AvailableCopies |-> 0]

\* The seeded catalog of NewLibrary
SeedCopies(title) == IF title = GoProgramming THEN 3 ELSE 2

NewLibraryBooks == [t \in Catalog |-> BookDetail(t, SeedCopies(t))]

\* Loans starts as an empty map: no title has an entry
NewLibraryLoans == <<>>

Init ==
    /\ Books = NewLibraryBooks
    /\ Loans = NewLibraryLoans
    /\ mutex = [w |-> NoProc, readers |-> {}, rwait |-> {}]
    /\ pc = [p \in Procs |-> "idle"]
    /\ req = [p \in Procs |-> NoReq]
    /\ book = [p \in Procs |-> NoBook]
    /\ resp = [p \in Procs |-> NoResp]
    /\ issued = 0
    /\ created = <<>>

\* ------------------------------------------------------- sync.RWMutex
\* Lock, first half: take the writers' mutex and announce a pending writer
MutexLock(m, p) == [m EXCEPT !.w = p]

MutexLockGrantedIgnoringReaders(m, p) == m.w = p

\* a pending writer proceeds once the active readers have left
MutexLockGranted(m, p) == m.w = p /\ m.readers = {}

\* Unlock: release the writer and admit every reader blocked behind it
MutexUnlock(m) == [w |-> NoProc, readers |-> m.rwait, rwait |-> {}]

\* the writers' mutex is free
MutexCanLock(m) == m.w = NoProc

MutexCanRLockAlone(m) == m.w = NoProc /\ m.readers = {}

\* RLock succeeds at once unless a writer holds or awaits the lock
MutexCanRLock(m) == m.w = NoProc

MutexRLock(m, p) ==
    IF MutexCanRLock(m)
      THEN [m EXCEPT !.readers = @ \cup {p}]
      ELSE [m EXCEPT !.rwait = @ \cup {p}]

MutexRUnlock(m, p) == [m EXCEPT !.readers = @ \ {p}]

\* ------------------------------------------------------------- helpers
\* _, exists := m[title]
HasKey(m, title) == title \in DOMAIN m

\* l.Loans[title]; a missing key reads as the nil slice
LoansOf(loans, title) == IF HasKey(loans, title) THEN loans[title] ELSE <<>>

\* l.Loans[title] = list
SetLoans(loans, title, list) ==
    [t \in DOMAIN loans \cup {title} |-> IF t = title THEN list ELSE loans[t]]

FirstLoanIndexDefaultFirst(list, borrower) ==
    IF \E i \in 1..Len(list) : list[i].NameOfBorrower = borrower
      THEN CHOOSE i \in 1..Len(list) :
             /\ list[i].NameOfBorrower = borrower
             /\ \A j \in 1..(i - 1) : list[j].NameOfBorrower # borrower
      ELSE IF list = <<>> THEN -1 ELSE 1

\* the linear scan of Extend and Return: index of the first loan of the
\* borrower, -1 when there is none
FirstLoanIndex(list, borrower) ==
    IF \E i \in 1..Len(list) : list[i].NameOfBorrower = borrower
      THEN CHOOSE i \in 1..Len(list) :
             /\ list[i].NameOfBorrower = borrower
             /\ \A j \in 1..(i - 1) : list[j].NameOfBorrower # borrower
      ELSE -1

TruncateWithoutSwap(list, i) == SubSeq(list, 1, Len(list) - 1)

SwapWithoutTruncate(list, i) == [list EXCEPT ![i] = list[Len(list)]]

\* loans[i] = loans[len(loans)-1]; loans[:len(loans)-1]
SwapRemove(list, i) ==
    SubSeq([list EXCEPT ![i] = list[Len(list)]], 1, Len(list) - 1)

ExtendedFromLoanDate(loan) ==
    [loan EXCEPT !.ReturnDate = AddDate(loan.LoanDate, ExtendDays)]

\* loans[i].ReturnDate = loan.ReturnDate.AddDate(0, 0, 21)
ExtendedLoan(loan) == [loan EXCEPT !.ReturnDate = AddDate(loan.ReturnDate, ExtendDays)]

Reply(status, body) == [status |-> status, body |-> body]

LookupReplyFoldingCase(books, title) ==
    LET key == IF title = LowerCaseTitle THEN CleanCode ELSE title IN
    IF HasKey(books, key)
      THEN Reply(StatusOK, books[key])
      ELSE Reply(StatusNotFound, "Book not found")

\* Lookup: book, exists := l.Books[title], then 404 or the encoded book
LookupReply(books, title) ==
    IF HasKey(books, title)
      THEN Reply(StatusOK, books[title])
      ELSE Reply(StatusNotFound, "Book not found")

\* ------------------------------------- the handlers' effect on the store
\* Borrow: 0 when the loan is granted, else the failure status
NoCopiesOffByOne(b) == b.AvailableCopies < 0

\* if book.AvailableCopies <= 0
NoCopies(b) == b.AvailableCopies <= 0

BorrowStatus(books, title) ==
    IF ~HasKey(books, title) THEN StatusNotFound
    ELSE IF NoCopies(books[title]) THEN StatusConflict
    ELSE 0

BorrowMessage(status) ==
    IF status = StatusNotFound THEN "Book not found" ELSE "No copies available"

BorrowedBookNotDecremented(b) == b

\* book.AvailableCopies--
BorrowedBook(b) == [b EXCEPT !.AvailableCopies = @ - 1]

NewLoanFieldsSwapped(title, borrower, now) ==
    LoanDetail(borrower, title, now, AddDate(now, LoanPeriodDays))

NewLoanThreeWeeks(title, borrower, now) ==
    LoanDetail(title, borrower, now, AddDate(now, ExtendDays))

\* LoanDetail{request.Title, request.Borrower, now, now.AddDate(0, 0, 28)}
NewLoan(title, borrower, now) ==
    LoanDetail(title, borrower, now, AddDate(now, LoanPeriodDays))

BorrowLoansOnePerBorrower(loans, title, loan) ==
    IF FirstLoanIndex(LoansOf(loans, title), loan.NameOfBorrower) # -1
      THEN SetLoans(loans, title, LoansOf(loans, title))
      ELSE SetLoans(loans, title, Append(LoansOf(loans, title), loan))

\* l.Loans[title] = append(l.Loans[title], loan)
BorrowLoans(loans, title, loan) ==
    SetLoans(loans, title, Append(LoansOf(loans, title), loan))

\* Extend: 0 when a loan is extended, else 404 with its message
ExtendMessage(loans, title, borrower) ==
    IF ~HasKey(loans, title) THEN "No loans found for this book"
    ELSE IF FirstLoanIndex(loans[title], borrower) = -1
      THEN "No loan found for this borrower"
    ELSE ""

ExtendLoansWithoutBreak(loans, title, borrower) ==
    SetLoans(loans, title,
             [i \in 1..Len(loans[title]) |->
                IF loans[title][i].NameOfBorrower = borrower
                  THEN ExtendedLoan(loans[title][i]) ELSE loans[title][i]])

\* the scan of Extend: the first loan of the borrower is extended in place
ExtendLoans(loans, title, borrower) ==
    LET i == FirstLoanIndex(loans[title], borrower) IN
    SetLoans(loans, title, [loans[title] EXCEPT ![i] = ExtendedLoan(loans[title][i])])

\* Return: "" when a loan is removed, else the 404 message
ReturnMessage(books, loans, title, borrower) ==
    IF ~HasKey(loans, title) THEN "No loans found for this book"
    ELSE IF ~HasKey(books, title) THEN "Book not found"
    ELSE IF FirstLoanIndex(loans[title], borrower) = -1
      THEN "No loan found for this borrower"
    ELSE ""

ReturnLoans(loans, title, borrower) ==
    SetLoans(loans, title,
             SwapRemove(loans[title], FirstLoanIndex(loans[title], borrower)))

ReturnedBookNotIncremented(b) == b

\* book.AvailableCopies++
ReturnedBook(b) == [b EXCEPT !.AvailableCopies = @ + 1]

SetBookWithoutTitle(books, title, b) ==
    [t \in DOMAIN books \cup {title} |->
       IF t = title THEN BookDetail("", b.AvailableCopies) ELSE books[t]]

\* l.Books[title] = book (a map assignment: it would create a missing key)
SetBook(books, title, b) ==
    [t \in DOMAIN books \cup {title} |-> IF t = title THEN b ELSE books[t]]

\* ----------------------------------------------- request validation
\* the checks every handler makes before it touches the lock; 0 = accepted
PreflightStatus(wantMethod, method, bodyOK, title, borrower, needBorrower) ==
    IF method # wantMethod THEN StatusMethodNotAllowed
    ELSE IF ~bodyOK THEN StatusBadRequest
    ELSE IF title = "" \/ (needBorrower /\ borrower = "") THEN StatusBadRequest
    ELSE 0

AfterResponseUnlockOnSuccessOnly(status) ==
    IF status \in {StatusOK, StatusCreated} THEN "defer" ELSE "done"

\* pc of a handler that has written its response under the write lock:
\* the deferred Unlock is still to run
AfterResponse(status) == "defer"

\* ------------------------------------------- history of the loans
C19_Entry(loan, k) == [loan |-> loan, k |-> k]

C19_Borrowed(hist, title, loan) ==
    SetLoans(hist, title, Append(LoansOf(hist, title), C19_Entry(loan, 0)))

C19_Extended(hist, title, i) ==
    SetLoans(hist, title, [hist[title] EXCEPT ![i].k = @ + 1])

\* the entry at i leaves; the last entry, if another, now stands at i
C19_Returned(hist, title, i) ==
    SetLoans(hist, title,
             [j \in 1..(Len(hist[title]) - 1) |->
                IF j = i THEN hist[title][Len(hist[title])] ELSE hist[title][j]])

\* ------------------------------------------------------ getBookHandler
getBookRequestOf(p, requests) ==
    /\ pc[p] = "idle"
    /\ issued < MaxOps
    /\ \E r \in requests :
         LET st == PreflightStatus("GET", r.method, TRUE, r.title, "", FALSE) IN
         /\ IF st = 0
              THEN /\ req' = [req EXCEPT ![p] = Request("Lookup", r.title, "")]
                   /\ pc' = [pc EXCEPT ![p] = "RLock"]
                   /\ resp' = resp
              ELSE /\ req' = [req EXCEPT ![p] = Request("Lookup", "", "")]
                   /\ pc' = [pc EXCEPT ![p] = "done"]
                   /\ resp' = [resp EXCEPT ![p] = Reply(st, "rejected")]
    /\ issued' = issued + 1
    /\ UNCHANGED <<Books, Loans, created, mutex, book>>

getBookRequest(p) == getBookRequestOf(p, GetRequests)

\* l.mutex.RLock()
getBookRLock(p) ==
    /\ pc[p] = "RLock"
    /\ mutex' = MutexRLock(mutex, p)
    /\ pc' = [pc EXCEPT ![p] = IF MutexCanRLock(mutex) THEN "read" ELSE "RLockBlocked"]
    /\ UNCHANGED <<Books, Loans, created, req, book, resp, issued>>

\* book, exists := l.Books[title]; RUnlock; then the response is written
getBookRead(p) ==
    /\ pc[p] = "read"
    /\ mutex' = MutexRUnlock(mutex, p)
    /\ book' = [book EXCEPT ![p] =
                  IF HasKey(Books, req[p].title) THEN Books[req[p].title] ELSE NoBook]
    /\ resp' = [resp EXCEPT ![p] = LookupReply(Books, req[p].title)]
    /\ pc' = [pc EXCEPT ![p] = "done"]
    /\ UNCHANGED <<Books, Loans, created, req, issued>>

\* a handler that holds no lock returns
HandlerReturn(p) ==
    /\ pc[p] = "done"
    /\ pc' = [pc EXCEPT ![p] = "idle"]
    /\ req' = [req EXCEPT ![p] = NoReq]
    /\ book' = [book EXCEPT ![p] = NoBook]
    /\ resp' = [resp EXCEPT ![p] = NoResp]
    /\ UNCHANGED <<Books, Loans, created, mutex, issued>>

\* --------------------------------------- the three mutating handlers
WriteRequestOf(p, op, requests) ==
    /\ pc[p] = "idle"
    /\ issued < MaxOps
    /\ \E r \in requests :
         LET st == PreflightStatus("POST", r.method, r.bodyOK, r.title, r.borrower, TRUE) IN
         /\ IF st = 0
              THEN /\ req' = [req EXCEPT ![p] = Request(op, r.title, r.borrower)]
                   /\ pc' = [pc EXCEPT ![p] = "Lock"]
                   /\ resp' = resp
              ELSE /\ req' = [req EXCEPT ![p] = Request(op, "", "")]
                   /\ pc' = [pc EXCEPT ![p] = "done"]
                   /\ resp' = [resp EXCEPT ![p] = Reply(st, "rejected")]
    /\ issued' = issued + 1
    /\ UNCHANGED <<Books, Loans, created, mutex, book>>

WriteRequest(p, op) == WriteRequestOf(p, op, PostRequests)

borrowBookRequest(p) == WriteRequest(p, "Borrow")
extendLoanRequest(p) == WriteRequest(p, "Extend")
returnBookRequest(p) == WriteRequest(p, "Return")

\* l.mutex.Lock(): become the pending writer ...
HandlerLock(p) ==
    /\ pc[p] = "Lock"
    /\ MutexCanLock(mutex)
    /\ mutex' = MutexLock(mutex, p)
    /\ pc' = [pc EXCEPT ![p] = "LockWait"]
    /\ UNCHANGED <<Books, Loans, created, req, book, resp, issued>>

\* ... and enter once the readers have drained
HandlerLockGranted(p) ==
    /\ pc[p] = "LockWait"
    /\ MutexLockGranted(mutex, p)
    /\ pc' = [pc EXCEPT ![p] = "cs"]
    /\ UNCHANGED <<Books, Loans, created, mutex, req, book, resp, issued>>

\* defer l.mutex.Unlock(): runs when the handler returns, after the
\* response has been written; readers blocked behind the writer wake up
HandlerUnlock(p) ==
    /\ pc[p] = "defer"
    /\ mutex' = MutexUnlock(mutex)
    /\ pc' = [q \in Procs |-> IF q = p THEN "idle"
                               ELSE IF q \in mutex.rwait THEN "read"
                               ELSE pc[q]]
    /\ req' = [req EXCEPT ![p] = NoReq]
    /\ book' = [book EXCEPT ![p] = NoBook]
    /\ resp' = [resp EXCEPT ![p] = NoResp]
    /\ UNCHANGED <<Books, Loans, created, issued>>

\* borrowBookHandler: look the book up, check the copies, write the
\* decremented book back
borrowBookCheck(p) ==
    /\ pc[p] = "cs"
    /\ req[p].op = "Borrow"
    /\ LET title == req[p].title
           st    == BorrowStatus(Books, title) IN
       IF st # 0
         THEN /\ resp' = [resp EXCEPT ![p] = Reply(st, BorrowMessage(st))]
              /\ pc' = [pc EXCEPT ![p] = AfterResponse(st)]
              /\ UNCHANGED <<Books, book>>
         ELSE /\ book' = [book EXCEPT ![p] = BorrowedBook(Books[title])]
              /\ Books' = SetBook(Books, title, BorrowedBook(Books[title]))
              /\ pc' = [pc EXCEPT ![p] = "cs2"]
              /\ resp' = resp
    /\ UNCHANGED <<Loans, created, mutex, req, issued>>

\* borrowBookHandler: create the loan, append it, write the response
borrowBookAppend(p) ==
    /\ pc[p] = "cs2"
    /\ req[p].op = "Borrow"
    /\ \E now \in Times :
         LET loan == NewLoan(req[p].title, req[p].borrower, now) IN
         /\ Loans' = BorrowLoans(Loans, req[p].title, loan)
         /\ created' = C19_Borrowed(created, req[p].title, loan)
         /\ resp' = [resp EXCEPT ![p] = Reply(StatusCreated, loan)]
    /\ pc' = [pc EXCEPT ![p] = AfterResponse(StatusCreated)]
    /\ UNCHANGED <<Books, mutex, req, book, issued>>

\* extendLoanHandler
extendLoanCS(p) ==
    /\ pc[p] = "cs"
    /\ req[p].op = "Extend"
    /\ LET title == req[p].title
           msg   == ExtendMessage(Loans, title, req[p].borrower) IN
       IF msg # ""
         THEN /\ resp' = [resp EXCEPT ![p] = Reply(StatusNotFound, msg)]
              /\ pc' = [pc EXCEPT ![p] = AfterResponse(StatusNotFound)]
              /\ Loans' = Loans
              /\ created' = created
         ELSE /\ Loans' = ExtendLoans(Loans, title, req[p].borrower)
              /\ created' = C19_Extended(created, title,
                                         FirstLoanIndex(Loans[title], req[p].borrower))
              /\ resp' = [resp EXCEPT ![p] =
                   Reply(StatusOK,
                         ExtendedLoan(Loans[title][FirstLoanIndex(Loans[title],
                                                                  req[p].borrower)]))]
              /\ pc' = [pc EXCEPT ![p] = AfterResponse(StatusOK)]
    /\ UNCHANGED <<Books, mutex, req, book, issued>>

\* returnBookHandler: read the loans and the book, find the loan and
\* remove it from the list
returnBookRemove(p) ==
    /\ pc[p] = "cs"
    /\ req[p].op = "Return"
    /\ LET title == req[p].title
           msg   == ReturnMessage(Books, Loans, title, req[p].borrower) IN
       IF msg # ""
         THEN /\ resp' = [resp EXCEPT ![p] = Reply(StatusNotFound, msg)]
              /\ pc' = [pc EXCEPT ![p] = AfterResponse(StatusNotFound)]
              /\ UNCHANGED <<Loans, created, book>>
         ELSE /\ book' = [book EXCEPT ![p] = Books[title]]
              /\ Loans' = ReturnLoans(Loans, title, req[p].borrower)
              /\ created' = C19_Returned(created, title,
                                         FirstLoanIndex(Loans[title], req[p].borrower))
              /\ pc' = [pc EXCEPT ![p] = "cs2"]
              /\ resp' = resp
    /\ UNCHANGED <<Books, mutex, req, issued>>

\* returnBookHandler: book.AvailableCopies++, write it back, respond
returnBookIncrement(p) ==
    /\ pc[p] = "cs2"
    /\ req[p].op = "Return"
    /\ Books' = SetBook(Books, req[p].title, ReturnedBook(book[p]))
    /\ book' = [book EXCEPT ![p] = ReturnedBook(book[p])]
    /\ resp' = [resp EXCEPT ![p] = Reply(StatusOK, "successfully returned")]
    /\ pc' = [pc EXCEPT ![p] = AfterResponse(StatusOK)]
    /\ UNCHANGED <<Loans, created, mutex, req, issued>>

Step(p) ==
    \/ getBookRequest(p)
    \/ getBookRLock(p)
    \/ getBookRead(p)
    \/ HandlerReturn(p)
    \/ borrowBookRequest(p)
    \/ extendLoanRequest(p)
    \/ returnBookRequest(p)
    \/ HandlerLock(p)
    \/ HandlerLockGranted(p)
    \/ HandlerUnlock(p)
    \/ borrowBookCheck(p)
    \/ borrowBookAppend(p)
    \/ extendLoanCS(p)
    \/ returnBookRemove(p)
    \/ returnBookIncrement(p)

Next == \E p \in Procs : Step(p)

Spec == Init /\ [][Next]_vars

\* what a goroutine does once its request has been accepted
Progress(p) ==
    \/ getBookRLock(p)
    \/ getBookRead(p)
    \/ HandlerReturn(p)
    \/ HandlerLock(p)
    \/ HandlerLockGranted(p)
    \/ HandlerUnlock(p)
    \/ borrowBookCheck(p)
    \/ borrowBookAppend(p)
    \/ extendLoanCS(p)
    \/ returnBookRemove(p)
    \/ returnBookIncrement(p)

\* the requests of the liveness runs: well-formed, for one catalog title
\* or the unknown one, by one borrower (enough to take every branch of
\* every handler)
LiveTitles == {CleanCode, "Nonexistent Book"}
LiveBorrowers == {"John Doe"}

LiveRequest(p) ==
    \/ getBookRequestOf(p, {HttpRequest("GET", TRUE, t, "") : t \in LiveTitles})
    \/ \E op \in {"Borrow", "Extend", "Return"} :
         WriteRequestOf(p, op, {HttpRequest("POST", TRUE, t, b) :
                                  t \in LiveTitles, b \in LiveBorrowers})

LiveNext == \E p \in Procs : LiveRequest(p) \/ Progress(p)

\* the Go scheduler runs every runnable goroutine, and sync.Mutex hands
\* the writers' mutex to a waiter that has been starved (starvation mode)
FairSpec ==
    /\ Init /\ [][LiveNext]_vars
    /\ \A p \in Procs : WF_vars(Progress(p))
    /\ \A p \in Procs : SF_vars(HandlerLock(p))

\* ------------------------------------------------- the Borrow race
\* NumProcs Borrow requests for one title are in flight at once, all
\* about to call Lock; the title has already lent n0 of its copies
RaceInit ==
    \E t0 \in Catalog, b0 \in Borrowers :
    \E n0 \in 0..SeedCopies(t0) :
    \E who \in [Procs -> Borrowers] :
      /\ Books = [NewLibraryBooks EXCEPT ![t0].AvailableCopies = @ - n0]
      /\ Loans = IF n0 = 0 THEN NewLibraryLoans
                 ELSE SetLoans(NewLibraryLoans, t0,
                               [k \in 1..n0 |-> NewLoan(t0, b0, 0)])
      /\ mutex = [w |-> NoProc, readers |-> {}, rwait |-> {}]
      /\ pc = [p \in Procs |-> "Lock"]
      /\ req = [p \in Procs |-> Request("Borrow", t0, who[p])]
      /\ book = [p \in Procs |-> NoBook]
      /\ resp = [p \in Procs |-> NoResp]
      /\ issued = MaxOps
      /\ created = IF n0 = 0 THEN <<>>
                   ELSE SetLoans(<<>>, t0,
                                 [k \in 1..n0 |-> C19_Entry(NewLoan(t0, b0, 0), 0)])

RaceNext ==
    \E p \in Procs :
      \/ HandlerLock(p)
      \/ HandlerLockGranted(p)
      \/ borrowBookCheck(p)
      \/ borrowBookAppend(p)
      \/ HandlerUnlock(p)

RaceSpec == RaceInit /\ [][RaceNext]_vars

\* ------------------------------------------------------- properties
AvailableCopies(t) == Books[t].AvailableCopies
NumLoans(t) == Len(LoansOf(Loans, t))
Inside == {"cs", "cs2", "defer"}
Granted(p, op) == pc[p] = "cs" /\ pc'[p] = "cs2" /\ req[p].op = op
Finished(p, op) == pc[p] = "cs2" /\ pc'[p] = "defer" /\ req[p].op = op

C1_NonNegative == \A t \in Catalog : AvailableCopies(t) >= 0

C1_DecrementStep ==
    \A t \in Catalog :
      Books'[t].AvailableCopies < Books[t].AvailableCopies =>
        /\ Books'[t].AvailableCopies = Books[t].AvailableCopies - 1
        /\ Books[t].AvailableCopies > 0
        /\ \E p \in Procs :
             /\ Granted(p, "Borrow") /\ req[p].title = t
             /\ mutex.w = p /\ mutex.readers = {} /\ mutex' = mutex

\* C1: availableCopies is never negative in any reachable state, and every
\* step that lowers it is the step of a Borrow that holds the write lock
\* and saw availableCopies > 0 in that same step; it lowers it by one.
C1_CopiesNeverNegative == []C1_NonNegative /\ [][C1_DecrementStep]_vars

C1_Witness ==
    \E p \in Procs :
      /\ pc[p] = "cs2" /\ req[p].op = "Borrow"
      /\ AvailableCopies(req[p].title) = 0

\* C2 (under RaceSpec): when at least as many Borrows race for a title as
\* it has copies, each ends 201 or 409, a 409 only once the copies are
\* gone, the lent copies never exceed the seeded ones, and when all have
\* completed the title has 0 copies left and one loan per seeded copy
\* while the other title is untouched.
C2_BorrowRace ==
    /\ \A p \in Procs : pc[p] = "defer" =>
         \/ resp[p].status = StatusCreated
         \/ /\ resp[p] = Reply(StatusConflict, "No copies available")
            /\ AvailableCopies(req[p].title) = 0
            /\ NumLoans(req[p].title) = SeedCopies(req[p].title)
    /\ \A t \in Catalog : AvailableCopies(t) >= 0 /\ NumLoans(t) <= SeedCopies(t)
    /\ (\A p \in Procs : pc[p] = "idle") =>
         \E t0 \in Catalog :
           /\ AvailableCopies(t0) = 0
           /\ NumLoans(t0) = SeedCopies(t0)
           /\ \A t \in Catalog \ {t0} :
                Books[t] = NewLibraryBooks[t] /\ ~HasKey(Loans, t)

C2_Witness ==
    /\ \A p \in Procs : pc[p] = "idle"
    /\ AvailableCopies(CleanCode) = 0
    /\ NumLoans(CleanCode) = 2

\* C3: a handler between Lock and its deferred Unlock owns the write lock
\* with no reader active; no two handlers are inside the store together,
\* none while a Lookup holds the read lock; and whenever a handler is
\* reading the store, every title's copies and loans add up (nobody sees
\* a copy count changed without its loan list).
C3_ExclusiveAccess ==
    /\ \A p \in Procs : pc[p] \in Inside => mutex.w = p /\ mutex.readers = {}
    /\ \A p \in Procs : pc[p] = "read" <=> p \in mutex.readers
    /\ \A p, q \in Procs :
         p # q /\ pc[p] \in Inside => pc[q] \notin Inside \cup {"read"}
    /\ (\E q \in Procs : pc[q] \in {"read", "cs"}) =>
         \A t \in Catalog : AvailableCopies(t) + NumLoans(t) = SeedCopies(t)

C3_Witness ==
    \E p, q \in Procs :
      /\ pc[p] = "cs2"
      /\ pc[q] = "RLockBlocked"
      /\ AvailableCopies(req[p].title) + NumLoans(req[p].title)
           # SeedCopies(req[p].title)

C4_Step ==
    \A p \in Procs :
      /\ (/\ pc[p] = "cs" /\ pc'[p] # "cs" /\ req[p].op = "Borrow"
          /\ req[p].title \in Catalog
          /\ AvailableCopies(req[p].title) = 0)
           => /\ resp'[p] = Reply(StatusConflict, "No copies available")
              /\ pc'[p] = "defer"
              /\ store' = store
      /\ (/\ pc[p] = "defer" /\ pc'[p] # "defer" /\ req[p].op = "Borrow"
          /\ resp[p].status = StatusConflict)
           => store' = store

\* C4: a Borrow that finds availableCopies = 0 for a catalog title answers
\* 409 "No copies available" and neither that step nor the rest of the
\* call changes any book or any loan list.
C4_NoCopiesFails == [][C4_Step]_vars

C4_Witness ==
    \E p \in Procs :
      /\ pc[p] = "defer" /\ req[p].op = "Borrow"
      /\ resp[p].status = StatusConflict

C5_Delta(t) ==
    <<Books'[t].AvailableCopies - Books[t].AvailableCopies,
      Len(LoansOf(Loans', t)) - Len(LoansOf(Loans, t))>>

C5_Step ==
    \A t \in Catalog :
      C5_Delta(t) =
        IF \E p \in Procs : Granted(p, "Borrow") /\ req[p].title = t THEN <<-1, 0>>
        ELSE IF \E p \in Procs : Finished(p, "Borrow") /\ req[p].title = t THEN <<0, 1>>
        ELSE IF \E p \in Procs : Granted(p, "Return") /\ req[p].title = t THEN <<0, -1>>
        ELSE IF \E p \in Procs : Finished(p, "Return") /\ req[p].title = t THEN <<1, 0>>
        ELSE <<0, 0>>

C5_Balance ==
    \A t \in Catalog :
      /\ AvailableCopies(t) <= SeedCopies(t)
      /\ AvailableCopies(t) + NumLoans(t)
           + (IF \E p \in Procs : pc[p] = "cs2" /\ req[p].title = t THEN 1 ELSE 0)
           = SeedCopies(t)

\* C5: the two writes of a successful Borrow change its title's (copies,
\* loans) by (-1, 0) then (0, +1), those of a successful Return by (0, -1)
\* then (+1, 0), and no other step changes either number of any title; so
\* copies + loans equals the seeded count whenever no handler is between
\* its two writes (one short while it is) and copies never exceed the seed.
C5_PairedBookkeeping == []C5_Balance /\ [][C5_Step]_vars

C5_Witness ==
    \E p \in Procs :
      /\ pc[p] = "defer" /\ req[p].op = "Return"
      /\ resp[p].status = StatusOK

\* C6: from every reachable store, for every title with a copy available
\* and every borrower, Borrow succeeds and the Return that follows it
\* succeeds, removes exactly one loan and leaves the books and the number
\* of loans of the title as they were before the Borrow.
C6_BorrowThenReturn ==
    \A t \in Catalog, b \in Borrowers, now \in Times :
      AvailableCopies(t) > 0 =>
        LET books1 == SetBook(Books, t, BorrowedBook(Books[t]))
            loans1 == BorrowLoans(Loans, t, NewLoan(t, b, now))
            loans2 == ReturnLoans(loans1, t, b)
            books2 == SetBook(books1, t, ReturnedBook(books1[t]))
        IN /\ BorrowStatus(Books, t) = 0
           /\ ReturnMessage(books1, loans1, t, b) = ""
           /\ books2 = Books
           /\ Len(loans2[t]) = Len(loans1[t]) - 1
           /\ Len(loans2[t]) = NumLoans(t)
           /\ \A u \in DOMAIN Loans \ {t} : loans2[u] = Loans[u]

C6_Witness ==
    \E p \in Procs :
      /\ pc[p] = "defer" /\ req[p].op = "Return" /\ resp[p].status = StatusOK
      /\ \E i \in 1..NumLoans(req[p].title) :
           Loans[req[p].title][i].NameOfBorrower = req[p].borrower
      /\ AvailableCopies(req[p].title) > 0

MutexFree == mutex = [w |-> NoProc, readers |-> {}, rwait |-> {}]

C8_BlockedOnlyByHolder ==
    \A p \in Procs : pc[p] = "RLockBlocked" => \E q \in Procs : pc[q] \in Inside

C8_Blocked ==
    /\ \A p \in Procs : pc[p] = "RLockBlocked" <=> p \in mutex.rwait
    /\ \A p \in Procs : pc[p] = "RLockBlocked" =>
         /\ mutex.w \in Procs
         /\ pc[mutex.w] \in Inside \cup {"LockWait"}
         /\ req[mutex.w].op \in {"Borrow", "Extend", "Return"}

C8_RLockStep ==
    \A p \in Procs :
      pc[p] = "RLock" /\ pc'[p] # "RLock" =>
        IF mutex.w = NoProc
          THEN pc'[p] = "read" /\ mutex'.readers = mutex.readers \cup {p}
          ELSE pc'[p] = "RLockBlocked"

\* C8 (amended): a Lookup takes only the read lock and enters at once,
\* beside any Lookups already inside, unless a Borrow, Extend or Return
\* holds the exclusive lock or is already waiting in Lock() for it; only
\* then does it wait.
C8_SharedLookup == []C8_Blocked /\ [][C8_RLockStep]_vars

C8_Witness == Cardinality(mutex.readers) >= 2

C9_FirstOf(list, b) ==
    CHOOSE i \in 1..Len(list) :
      /\ list[i].NameOfBorrower = b
      /\ \A j \in 1..Len(list) : list[j].NameOfBorrower = b => i <= j

C9_Step ==
    \A p \in Procs :
      (/\ pc[p] = "cs" /\ pc'[p] # "cs" /\ req[p].op = "Extend"
       /\ resp'[p].status = StatusOK)
        => LET t   == req[p].title
               old == Loans[t]
               new == Loans'[t]
               i   == C9_FirstOf(old, req[p].borrower)
           IN /\ \E k \in 1..Len(old) : old[k].NameOfBorrower = req[p].borrower
              /\ Len(new) = Len(old)
              /\ new[i] = [old[i] EXCEPT !.ReturnDate = @ + 21]
              /\ \A j \in 1..Len(old) : j # i => new[j] = old[j]
              /\ resp'[p].body = new[i]
              /\ DOMAIN Loans' = DOMAIN Loans
              /\ \A u \in DOMAIN Loans \ {t} : Loans'[u] = Loans[u]
              /\ Books' = Books

C9_Dates ==
    \A t \in DOMAIN Loans : \A i \in 1..Len(Loans[t]) :
      /\ Loans[t][i].ReturnDate >= Loans[t][i].LoanDate + 28
      /\ (Loans[t][i].ReturnDate - Loans[t][i].LoanDate - 28) % 21 = 0

\* C9: a successful Extend changes exactly one loan, the first loan of
\* the borrower in the title's list, adds 21 days to the returnDate that
\* loan had and answers with the updated loan; every stored loan is due
\* at loanDate + 28 + 21*k days (49 after one Extend, 70 after two).
C9_ExtendAddsThreeWeeks == []C9_Dates /\ [][C9_Step]_vars

C9_Witness ==
    \E p \in Procs :
      /\ pc[p] = "defer" /\ req[p].op = "Extend" /\ resp[p].status = StatusOK
      /\ resp[p].body.ReturnDate = resp[p].body.LoanDate + 70

C10_Count(r, list) == Cardinality({k \in 1..Len(list) : list[k] = r})

C10_Step ==
    \A p \in Procs :
      /\ Granted(p, "Return") =>
           LET t   == req[p].title
               old == Loans[t]
               new == Loans'[t]
               i   == C9_FirstOf(old, req[p].borrower)
           IN /\ Len(new) = Len(old) - 1
              /\ \A k \in 1..Len(old) :
                   C10_Count(old[k], new) =
                     C10_Count(old[k], old) - (IF old[k] = old[i] THEN 1 ELSE 0)
              /\ DOMAIN Loans' = DOMAIN Loans
              /\ \A u \in DOMAIN Loans \ {t} : Loans'[u] = Loans[u]
              /\ Books' = Books
      /\ Finished(p, "Return") =>
           /\ Books' = [Books EXCEPT ![req[p].title].AvailableCopies = @ + 1]
           /\ Loans' = Loans
           /\ resp'[p].status = StatusOK

\* C10: a successful Return takes exactly one loan out of the title's
\* list, the first one of the borrower; every other loan of the title is
\* still there unchanged (as a multiset: positions may differ); then it
\* raises the title's availableCopies by one; no other title's book or
\* loans change.
C10_ReturnRemovesFirstLoan == [][C10_Step]_vars

C10_Witness ==
    \E p \in Procs :
      /\ pc[p] = "defer" /\ req[p].op = "Return" /\ resp[p].status = StatusOK
      /\ NumLoans(req[p].title) >= 1

C11_Step ==
    \A p \in Procs :
      /\ (/\ pc[p] = "cs" /\ pc'[p] # "cs" /\ req[p].op = "Borrow"
          /\ req[p].title \in Catalog
          /\ AvailableCopies(req[p].title) > 0)
           => /\ pc'[p] = "cs2"
              /\ Books' = [Books EXCEPT ![req[p].title].AvailableCopies = @ - 1]
              /\ Loans' = Loans
      /\ Finished(p, "Borrow") =>
           LET t   == req[p].title
               old == LoansOf(Loans, t)
               new == Loans'[t]
               l   == new[Len(new)]
           IN /\ Len(new) = Len(old) + 1
              /\ \A i \in 1..Len(old) : new[i] = old[i]
              /\ l.BookTitle = t
              /\ l.NameOfBorrower = req[p].borrower
              /\ l.LoanDate \in Times
              /\ l.ReturnDate = l.LoanDate + 28
              /\ resp'[p] = [status |-> 201, body |-> l]
              /\ DOMAIN Loans' = DOMAIN Loans \cup {t}
              /\ \A u \in DOMAIN Loans \ {t} : Loans'[u] = Loans[u]
              /\ Books' = Books

\* C11: a Borrow(T, B) that finds availableCopies(T) > 0 for a catalog
\* title goes on to succeed: it lowers availableCopies(T) by exactly one,
\* then appends at the end of T's loan list one loan with bookTitle = T,
\* borrower = B, loanDate = the current time, returnDate = loanDate + 28,
\* leaves every loan that was there untouched and in place, and answers
\* 201 with a loan equal to the one it stored.
C11_BorrowCreatesLoan == [][C11_Step]_vars

C11_Witness ==
    \E p \in Procs :
      /\ pc[p] = "defer" /\ req[p].op = "Borrow" /\ resp[p].status = StatusCreated
      /\ NumLoans(req[p].title) >= 2
      /\ Loans[req[p].title][NumLoans(req[p].title)] = resp[p].body

C12_Step ==
    \A p \in Procs :
      (/\ pc[p] = "cs" /\ pc'[p] # "cs" /\ req[p].op \in {"Extend", "Return"}
       /\ NumLoans(req[p].title) = 0)
        => /\ resp'[p] = Reply(StatusNotFound, "No loans found for this book")
           /\ store' = store

\* C12: whenever a title has no active loans (never borrowed, or all of
\* its loans returned since), Extend and Return answer the title-level
\* 404 "No loans found for this book" and change nothing.
C12_NoLoansIsTitleNotFound == [][C12_Step]_vars

C13_Step ==
    \A p \in Procs :
      /\ (pc'[p] # pc[p] /\ "Lookup" \in {req[p].op, req'[p].op}) => store' = store
      /\ (pc[p] = "read" /\ pc'[p] # "read") =>
           /\ p \in mutex.readers
           /\ \A q \in Procs : pc[q] \notin Inside
           /\ resp'[p] = IF req[p].title \in Catalog
                            THEN [status |-> 200, body |-> Books[req[p].title]]
                            ELSE [status |-> 404, body |-> "Book not found"]
      /\ (pc[p] = "done" /\ req[p].op = "Lookup" /\ pc'[p] = "done") =>
           resp'[p] = resp[p]

\* C13: no step of a Lookup changes a book or a loan list; for a catalog
\* title the answer is 200 with the book record as it is at the step of
\* the read, taken while the Lookup holds the read lock and no writer is
\* inside the store, and the answer does not change afterwards; for any
\* other title, one that differs only in case included, it is 404.
C13_LookupReadsOnly == [][C13_Step]_vars

C13_Witness ==
    /\ \E p \in Procs :
         /\ pc[p] = "done" /\ req[p].op = "Lookup" /\ resp[p].status = StatusOK
         /\ resp[p].body.AvailableCopies # AvailableCopies(req[p].title)
    /\ \E q \in Procs :
         /\ pc[q] = "done" /\ req[q] = Request("Lookup", LowerCaseTitle, "")
         /\ resp[q].status = StatusNotFound

C14_LoansBy(list, b) == Cardinality({i \in 1..Len(list) : list[i].NameOfBorrower = b})

RECURSIVE C14_Repeat(_, _, _, _, _)
\* the store after k successive Borrow(t, b) calls, and whether all succeeded
C14_Repeat(books, loans, t, b, k) ==
    IF k = 0 THEN <<books, loans, TRUE>>
    ELSE LET r == C14_Repeat(books, loans, t, b, k - 1) IN
         <<SetBook(r[1], t, BorrowedBook(r[1][t])),
           BorrowLoans(r[2], t, NewLoan(t, b, 0)),
           r[3] /\ BorrowStatus(r[1], t) = 0>>

C14_Repeated ==
    \A t \in Catalog, b \in Borrowers :
      \A k \in 1..AvailableCopies(t) :
        LET r == C14_Repeat(Books, Loans, t, b, k) IN
        /\ r[3]
        /\ r[1][t].AvailableCopies = AvailableCopies(t) - k
        /\ C14_LoansBy(r[2][t], b) = C14_LoansBy(LoansOf(Loans, t), b) + k
        /\ Len(r[2][t]) = NumLoans(t) + k

C14_Step ==
    \A p \in Procs :
      /\ (/\ pc[p] = "cs" /\ pc'[p] # "cs" /\ req[p].op = "Borrow"
          /\ req[p].title \in Catalog)
           => (pc'[p] = "cs2" <=> AvailableCopies(req[p].title) > 0)
      /\ Finished(p, "Borrow") =>
           /\ C14_LoansBy(Loans'[req[p].title], req[p].borrower)
                = C14_LoansBy(LoansOf(Loans, req[p].title), req[p].borrower) + 1
           /\ resp'[p].status = StatusCreated

\* C14: whether a Borrow(T, B) is granted depends only on
\* availableCopies(T) > 0, never on the loans B already holds, and every
\* granted Borrow adds one more loan of T for B; so from every reachable
\* store, repeating Borrow(T, B) k times with k <= availableCopies(T)
\* succeeds k times, adds k loans for B and lowers availableCopies by k.
C14_NoDeduplication == []C14_Repeated /\ [][C14_Step]_vars

C14_Witness ==
    /\ \A p \in Procs : pc[p] = "idle"
    /\ \E t \in Catalog, b \in Borrowers :
         /\ C14_LoansBy(LoansOf(Loans, t), b) = 2
         /\ AvailableCopies(t) = SeedCopies(t) - 2

C15_FixedCatalog ==
    /\ DOMAIN Books = Catalog
    /\ \A t \in DOMAIN Books : Books[t].Title = t
    /\ DOMAIN Loans \subseteq Catalog

C15_Step ==
    \A p \in Procs :
      (pc'[p] # pc[p] /\ req[p].op # "none" /\ req[p].title \notin Catalog)
        => store' = store

\* C15: in every reachable state the titles of the book map are exactly
\* the seeded ones and each book's title field equals its key; no loan
\* list exists for a title outside the catalog, and no step of a call
\* that names an unknown title changes the book map or the loan lists.
C15_CatalogIsFixed == []C15_FixedCatalog /\ [][C15_Step]_vars

C15_Witness ==
    /\ \E p \in Procs :
         /\ pc[p] = "defer" /\ req[p].op = "Return"
         /\ req[p].title \notin Catalog /\ resp[p].status = StatusNotFound
    /\ \E t \in Catalog : AvailableCopies(t) < SeedCopies(t) /\ NumLoans(t) > 0

C16_Step ==
    \A p \in Procs :
      (resp'[p] # resp[p] /\ resp'[p] # NoResp)
        => /\ mutex'.w # p
           /\ p \notin mutex'.readers

\* C16: the step in which a handler writes its HTTP response is never
\* taken by a goroutine that still holds the lock once the response is
\* out: the response is written outside the critical section.
C16_NoResponseUnderLock == [][C16_Step]_vars

C17_Fails(p) ==
    LET t == req[p].title
        list == LoansOf(Loans, t)
    IN IF req[p].op = "Borrow"
         THEN t \notin Catalog \/ AvailableCopies(t) <= 0
         ELSE \/ Len(list) = 0
              \/ \A i \in 1..Len(list) : list[i].NameOfBorrower # req[p].borrower

C17_Step ==
    \A p \in Procs :
      /\ (pc[p] = "idle" /\ pc'[p] = "done")
           => store' = store /\ resp'[p].status \in {400, 405}
      /\ (pc[p] \in {"Lock", "LockWait"} /\ pc'[p] # pc[p]) => store' = store
      /\ (pc[p] = "cs" /\ pc'[p] # "cs" /\ C17_Fails(p))
           => /\ store' = store
              /\ resp'[p].status \in {404, 409}
              /\ pc'[p] = "defer"
      /\ (pc[p] = "cs" /\ pc'[p] # "cs" /\ ~C17_Fails(p))
           => IF pc'[p] = "cs2" THEN resp'[p] = NoResp
                                ELSE resp'[p].status \in {200, 201}
      /\ (pc[p] = "cs2" /\ pc'[p] # "cs2") => resp'[p].status \in {200, 201}
      /\ (pc[p] \in {"defer", "done"} /\ pc'[p] # pc[p]
             /\ resp[p].status \notin {200, 201})
           => store' = store

\* C17: a call fails exactly when it is rejected before the lock (405 or
\* 400), is a Borrow of an unknown title or of a title without copies, or
\* is an Extend or Return for a title without loans or a borrower without
\* a loan of it (404 or 409); no step of a failing call, from its arrival
\* to its return, changes the book map or any loan list.
C17_FailureChangesNothing == [][C17_Step]_vars

C17_Witness ==
    \E p \in Procs :
      /\ pc[p] = "defer" /\ req[p].op \in {"Extend", "Return"}
      /\ resp[p] = Reply(StatusNotFound, "No loan found for this borrower")
      /\ NumLoans(req[p].title) >= 1

C18_LoansWellFormed ==
    /\ DOMAIN Loans \subseteq DOMAIN Books
    /\ DOMAIN Loans \subseteq Catalog
    /\ \A t \in DOMAIN Loans : \A i \in 1..Len(Loans[t]) : Loans[t][i].BookTitle = t

C18_Step ==
    \A p \in Procs :
      /\ (pc[p] = "cs" /\ pc'[p] # "cs" /\ req[p].op = "Return")
           => resp'[p].body # "Book not found"
      /\ Granted(p, "Return")
           => /\ Len(Loans[req[p].title]) >= 1
              /\ \E i \in 1..Len(Loans[req[p].title]) :
                   Loans[req[p].title][i].NameOfBorrower = req[p].borrower

\* C18: in every reachable state each title with a loan-list entry is a
\* catalog title that has a book, and each loan stored under T has
\* bookTitle = T; so no Return ever answers "Book not found", and the
\* swap-and-truncate of Return always runs on a list that holds a loan of
\* the borrower (never on an empty list).
C18_LoanKeysAreCatalogTitles == []C18_LoansWellFormed /\ [][C18_Step]_vars

C18_Witness ==
    \E p \in Procs :
      /\ pc[p] = "defer" /\ req[p].op = "Return"
      /\ HasKey(Loans, req[p].title) /\ NumLoans(req[p].title) = 0
      /\ resp[p].status = StatusNotFound

C19_Pairs(t) == [i \in 1..Len(Loans[t]) |-> <<Loans[t][i], created[t][i]>>]

C19_LoansKeepTheirOrigin ==
    /\ DOMAIN created = DOMAIN Loans
    /\ \A t \in DOMAIN Loans :
         /\ Len(created[t]) = Len(Loans[t])
         /\ \A i \in 1..Len(Loans[t]) :
              LET l == Loans[t][i]
                  c == created[t][i]
              IN /\ l.BookTitle = c.loan.BookTitle
                 /\ l.NameOfBorrower = c.loan.NameOfBorrower
                 /\ l.LoanDate = c.loan.LoanDate
                 /\ l.ReturnDate = l.LoanDate + 28 + 21 * c.k

C19_Step ==
    \A p \in Procs :
      /\ Finished(p, "Borrow") =>
           LET t == req[p].title
               n == Len(Loans'[t])
           IN /\ created'[t][n].k = 0
              /\ created'[t][n].loan = Loans'[t][n]
              /\ Loans'[t][n].BookTitle = t
              /\ Loans'[t][n].NameOfBorrower = req[p].borrower
              /\ Loans'[t][n].LoanDate \in Times
      /\ Granted(p, "Return") =>
           LET t   == req[p].title
               old == C19_Pairs(t)
               new == [j \in 1..Len(Loans'[t]) |-> <<Loans'[t][j], created'[t][j]>>]
               i   == C9_FirstOf(Loans[t], req[p].borrower)
           IN \A j \in 1..Len(old) :
                C10_Count(old[j], new) =
                  C10_Count(old[j], old) - (IF old[j] = old[i] THEN 1 ELSE 0)

\* C19: every stored loan has the bookTitle, borrower and loanDate that
\* the Borrow which created it gave it, and its returnDate is loanDate +
\* 28 + 21*k days, k being the number of successful Extends that selected
\* this loan; a Return takes one loan out and leaves every remaining
\* loan, with its own history, exactly as it was.
C19_LoanFieldsAreStable == []C19_LoansKeepTheirOrigin /\ [][C19_Step]_vars

C19_Witness ==
    \E t \in DOMAIN Loans :
      /\ Len(Loans[t]) = 2
      /\ \E i, j \in 1..2 : created[t][i].k = 1 /\ created[t][j].k = 0

====
